---- MODULE Spec2Model ----
(***************************************************************************)
(* State-machine model of the SocialVoice client screens                   *)
(*   src/components/FeedScreen.tsx  (FeedScreen, lines 1-352, and          *)
(*                                   MessageScreen, lines 355-675)         *)
(* and of the serverless proxy src/api/proxy.ts (handler, lines 58-130).   *)
(*                                                                         *)
(* One behaviour exercises one component (comp): a mounted screen, the      *)
(* scroll controller of a screen, or the proxy handler.  A voice command is  *)
(* a non-null lastCommand prop; every run of the lastCommand effect starts *)
(* one invocation of the screen's async handleCommand, which keeps the     *)
(* values of the render that created it (posts, currentPostIndex,          *)
(* recordingState, duration) while its classification is in flight.        *)
(* State updates made in one synchronous continuation are committed as one *)
(* render (React 18 batching), so a step of the model is one handler run   *)
(* together with the render and the effects it causes.                     *)
(***************************************************************************)
EXTENDS Integers, Sequences, FiniteSets, TLC

\* ------------------------------------------------------------------ bounds
MaxPosts    == 2   \* longest posts list the parent passes
MaxInv      == 2   \* handleCommand invocations in flight at once
MaxDuration == 1   \* timer ticks counted
MaxUploads  == 2   \* send calls made in one behaviour
MaxPending  == 1   \* theme-save and chat-delete calls in flight at once
MaxScrollTop == 4  \* largest scrollTop of the list
MaxSent     == 2   \* send calls made on the message list in one behaviour
MaxTimeouts == 3   \* auto-stop timeouts created in one behaviour
MaxFetches  == 2   \* fetchChatData calls in flight at once

\* ------------------------------------------------------------- JS values
\* JavaScript's NaN, the value of x % 0; every comparison with it is false.
NaN == -2

JsLt(a, b) == a # NaN /\ b # NaN /\ a < b
JsGt(a, b) == a # NaN /\ b # NaN /\ a > b

JsMod(a, n) == IF a = NaN \/ n = NaN \/ n = 0 THEN NaN ELSE a % n

JsAdd(a, b) == IF a = NaN \/ b = NaN THEN NaN ELSE a + b

\* lastCommand: string | null
Null == "<null>"

\* slots?.target_name when the classifier sent no such slot
Absent == "<absent>"

\* JavaScript truthiness of a slot value: undefined and "" are falsy
Truthy(s) == s # Absent /\ s # ""

\* ------------------------------------------------------------ the feed
AuthorAt(i) == CASE i % 3 = 1 -> "alice" [] i % 3 = 2 -> "carol" [] OTHER -> "bob"

\* The i-th post of the parent's feed; every second one is a sponsored post.
PostAt(i) == [id |-> i, author |-> AuthorAt(i), sponsored |-> (i % 2 = 0)]

\* posts lists the parent may pass, by length

Feed(n) == [i \in 1..n |-> PostAt(i)]

\* values the classifier may put in slots.target_name
Targets == {Absent, "", "alice", "carol"}

FeedIntents ==
  {"intent_next_post", "intent_previous_post", "intent_play_post", "intent_pause_post",
   "intent_like", "intent_comment", "intent_view_comments", "intent_view_comments_by_author",
   "intent_open_profile", "intent_create_post", "intent_open_friends_page",
   "intent_open_messages", "intent_open_settings", "intent_search_user",
   "intent_scroll_down", "intent_scroll_up", "intent_stop_scroll", "intent_help"}

MessageIntents ==
  {"intent_record_message", "intent_stop_recording", "intent_send_chat_message",
   "intent_re_record", "intent_delete_chat", "intent_change_chat_theme"}

\* intent tags the classifier can return (proxy.ts intent list): the tags either
\* screen handles and tags neither handles
Intents == FeedIntents \cup MessageIntents \cup {"unknown", "intent_go_back"}

\* The tags a screen is sent in the model: the ones it handles, and of the ones
\* it does not handle 'unknown' and one tag of the other screen.
FeedClassified == FeedIntents \cup {"unknown", "intent_record_message"}

MsgClassified == MessageIntents \cup {"unknown", "intent_next_post"}

VARIABLES
  comp,                 \* the component the behaviour exercises
  lastCommand,          \* prop lastCommand: Null or the command text
  inv,                  \* handleCommand invocations in flight, by slot
  ev,                   \* the step just taken
  out,                  \* callbacks and service calls made by the step just taken
  \* FeedScreen
  isLoading, posts, currentPostIndex, isPlaying, scrollState,
  isInitialLoad, isProgrammaticScroll, scrollTimeout,
  \* MessageScreen
  recordingState, duration, timerOn, messages, uploads, pending, currentTheme,
  \* scroll controller of a screen
  shown,                \* the scrollable list is mounted (the container ref is set)
  frame,                \* the animation loop: its pending frame callback
  scrollTop,            \* scrollTop of the mounted list
  \* proxy handler
  request,              \* the request being handled
  apiKey,               \* process.env.API_KEY is set
  handlerPc,            \* where the handler is
  responses,            \* responses sent for the request
  upstreamCalls,        \* calls made to the model service for the request
  upstream,             \* how the awaited upstream call settled
  \* message list and playback of MessageScreen
  screenMounted,        \* the screen is mounted
  recipient,            \* prop recipientUser.id
  listLoading,          \* state isLoading of MessageScreen
  fetches,              \* fetchChatData calls awaiting the data service
  stored,               \* per conversation, the sent messages the data service holds
  playingMessageId,     \* state playingMessageId
  playbackTimeoutRef,   \* playbackTimeoutRef.current: 0 (null) or a timeout id
  timeouts,             \* pending auto-stop timeouts
  autoPlays,            \* pending 300 ms timeouts set by sendMessage
  timeoutIds            \* timeout ids handed out so far

shared   == <<comp, lastCommand, inv, ev, out>>
feedVars == <<isLoading, posts, currentPostIndex, isPlaying, scrollState,
              isInitialLoad, isProgrammaticScroll, scrollTimeout>>
msgVars  == <<recordingState, duration, timerOn, messages, uploads, pending, currentTheme>>
scrollVars == <<shown, frame, scrollTop>>
proxyVars  == <<request, apiKey, handlerPc, responses, upstreamCalls, upstream>>
chatVars   == <<screenMounted, recipient, listLoading, fetches, stored, playingMessageId,
                playbackTimeoutRef, timeouts, autoPlays, timeoutIds>>
vars     == <<shared, feedVars, msgVars, scrollVars, proxyVars, chatVars>>

\* --------------------------------------------------------------- calls
\* One callback or service call: the function, its tag argument (a message key, a
\* view, a scroll direction), the name it carries and the number it carries.
Call(fn, arg, name, num) == [fn |-> fn, arg |-> arg, name |-> name, num |-> num]

Fns(o) == {o[k].fn : k \in DOMAIN o}

\* ---------------------------------------------------------------- steps
\* The step just taken: a continuation of handleCommand ("deliver" after await
\* processIntent, "searchSettled" after await searchUsers) with the way the awaited
\* call ended and the intent and slot the classifier returned, or "env".
Ev(kind, result, intent, target) ==
  [kind |-> kind, result |-> result, intent |-> intent, target |-> target]

\* a step of the environment (a click, a tick, a prop change, a timeout)
EnvEv == Ev("env", "", "", Absent)

\* ---------------------------------------------------------- invocations
\* An invocation of handleCommand in flight: where it is (awaiting processIntent,
\* awaiting searchUsers) and the values its closure holds.
Invocation(ps, idx, rs, d) ==
  [pc |-> "awaitIntent", cPosts |-> ps, cIdx |-> idx, cRec |-> rs, cDur |-> d, query |-> Absent]

\* no invocation: the finally block ran and the invocation returned
Free == [pc |-> "free", cPosts |-> <<>>, cIdx |-> -1, cRec |-> "IDLE", cDur |-> 0, query |-> Absent]

Slots == 1..MaxInv

Awaiting(i) == inv[i].pc # "free"

FreeSlots == {i \in Slots : inv[i].pc = "free"}

InFlight == Cardinality(Slots \ FreeSlots)

\* handleCommand(lastCommand): a new invocation, awaiting processIntent
Start(r) == [inv EXCEPT ![CHOOSE i \in FreeSlots : \A j \in FreeSlots : i <= j] = r]

\* The parent's onCommandProcessed: it ends the processing of the command
\* by clearing lastCommand.
OnCommandProcessed == Null

\* The lastCommand effect (deps [lastCommand, handleCommand]), run after a render:
\* with a non-null lastCommand and a new handleCommand identity it calls
\* handleCommand(lastCommand) again.
RunCommandEffect(cmd, identityChanged, ps, idx, rs, d) ==
  IF cmd # Null /\ identityChanged THEN Start(Invocation(ps, idx, rs, d)) ELSE inv

\* room for the invocation a render may start (the bound of the model)
Room == lastCommand = Null \/ FreeSlots # {}

\* ev and out observe one continuation of handleCommand: the observation is
\* dropped (Observed) before the next step is taken
Quiet == ev = EnvEv /\ out = <<>>

\* ------------------------------------------------- FeedScreen.handleCommand
\* posts[i] of JavaScript (0-based) exists
HasPost(ps, i) == i # NaN /\ i >= 0 /\ i < Len(ps)

PostOf(ps, i) == ps[i + 1]

\* a find that forgets the isSponsored test
MatchesAnyAuthor(ps, name) == {k \in DOMAIN ps : ps[k].author = name}

\* posts.find(p => !p.isSponsored && p.author.name === targetName): the matching
\* positions (1-based); find returns the first
Matches(ps, name) == {k \in DOMAIN ps : ~ps[k].sponsored /\ ps[k].author = name}

Found(ps, name) == Matches(ps, name) # {}

Find(ps, name) == ps[CHOOSE k \in Matches(ps, name) : \A j \in Matches(ps, name) : k <= j]

\* a current-post test that forgets the isSponsored test
CurrentUsableAnyPost(c) == c.cIdx # -1 /\ HasPost(c.cPosts, c.cIdx)

\* currentPostIndex !== -1 && posts[currentPostIndex] && !posts[currentPostIndex].isSponsored
CurrentUsable(c) ==
  c.cIdx # -1 /\ HasPost(c.cPosts, c.cIdx) /\ ~PostOf(c.cPosts, c.cIdx).sponsored

\* prev => (prev < 0 ? 0 : (prev + 1) % posts.length)
NextPostIndex(prev, n) == IF JsLt(prev, 0) THEN 0 ELSE JsMod(JsAdd(prev, 1), n)

\* prev => (prev > 0 ? prev - 1 : posts.length - 1)
PreviousPostIndex(prev, n) == IF JsGt(prev, 0) THEN prev - 1 ELSE n - 1

\* What one run of the switch does: the state it sets, the calls it makes, and
\* the query of the searchUsers call it awaits (Absent: it awaits nothing).
Effect(idx, playing, scroll, prog, calls, query) ==
  [idx |-> idx, playing |-> playing, scroll |-> scroll, prog |-> prog,
   calls |-> calls, query |-> query]

NoEffect(calls) ==
  Effect(currentPostIndex, isPlaying, scrollState, isProgrammaticScroll, calls, Absent)

FeedNextPost(c) ==
  Effect(NextPostIndex(currentPostIndex, Len(c.cPosts)), TRUE, scrollState, TRUE, <<>>, Absent)

FeedPreviousPost(c) ==
  Effect(PreviousPostIndex(currentPostIndex, Len(c.cPosts)), TRUE, scrollState, TRUE, <<>>, Absent)

FeedPlayPost(c) ==
  IF c.cIdx = -1 /\ Len(c.cPosts) > 0
  THEN Effect(0, TRUE, scrollState, TRUE, <<>>, Absent)
  ELSE Effect(currentPostIndex, TRUE, scrollState, isProgrammaticScroll, <<>>, Absent)

FeedPausePost ==
  Effect(currentPostIndex, FALSE, scrollState, isProgrammaticScroll, <<>>, Absent)

FeedLike(c, target) ==
  IF Truthy(target)
  THEN IF Found(c.cPosts, target)
       THEN NoEffect(<<Call("onLikePost", "", "", Find(c.cPosts, target).id)>>)
       ELSE NoEffect(<<Call("onSetTtsMessage", "couldnt_find_to_like", target, 0)>>)
  ELSE IF CurrentUsable(c)
       THEN NoEffect(<<Call("onLikePost", "", "", PostOf(c.cPosts, c.cIdx).id)>>)
       ELSE NoEffect(<<>>)

FeedViewComments(c, target) ==
  IF Truthy(target)
  THEN IF Found(c.cPosts, target)
       THEN NoEffect(<<Call("onViewPost", "", "", Find(c.cPosts, target).id)>>)
       ELSE NoEffect(<<Call("onSetTtsMessage", "cant_find_to_view", target, 0)>>)
  ELSE IF CurrentUsable(c)
       THEN NoEffect(<<Call("onViewPost", "", "", PostOf(c.cPosts, c.cIdx).id)>>)
       ELSE NoEffect(<<>>)

\* an open-profile case that looks the name up among the post authors first
FeedOpenProfileLookup(c, target) ==
  IF Truthy(target)
  THEN IF Found(c.cPosts, target)
       THEN NoEffect(<<Call("onOpenProfile", "", target, 0)>>)
       ELSE NoEffect(<<Call("onSetTtsMessage", "couldnt_find_profile", target, 0)>>)
  ELSE IF CurrentUsable(c)
       THEN NoEffect(<<Call("onOpenProfile", "", PostOf(c.cPosts, c.cIdx).author, 0)>>)
       ELSE NoEffect(<<>>)

FeedOpenProfile(c, target) ==
  IF Truthy(target)
  THEN NoEffect(<<Call("onOpenProfile", "", target, 0)>>)
  ELSE IF CurrentUsable(c)
       THEN NoEffect(<<Call("onOpenProfile", "", PostOf(c.cPosts, c.cIdx).author, 0)>>)
       ELSE NoEffect(<<>>)

\* a search case that does not test the target
FeedSearchUserAlways(target) ==
  Effect(currentPostIndex, isPlaying, scrollState, isProgrammaticScroll,
         <<Call("searchUsers", "", target, 0)>>, target)

\* case 'intent_search_user'
FeedSearchUser(target) ==
  IF Truthy(target)
  THEN Effect(currentPostIndex, isPlaying, scrollState, isProgrammaticScroll,
              <<Call("searchUsers", "", target, 0)>>, target)
  ELSE NoEffect(<<>>)

\* a scroll case that also stops playback
FeedSetScrollPausing(s) ==
  Effect(currentPostIndex, FALSE, s, isProgrammaticScroll,
         <<Call("onSetScrollState", s, "", 0)>>, Absent)

\* onSetScrollState(s): the parent owns scrollState and sets it to s
FeedSetScroll(s) ==
  Effect(currentPostIndex, isPlaying, s, isProgrammaticScroll,
         <<Call("onSetScrollState", s, "", 0)>>, Absent)

\* a default case that says nothing
FeedDefaultSilent == NoEffect(<<>>)

\* default: onSetTtsMessage(TTS_PROMPTS.error_generic)
FeedDefault == NoEffect(<<Call("onSetTtsMessage", "error_generic", "", 0)>>)

\* a catch block that only logs
FeedCatchSilent == <<>>

\* catch (error): onSetTtsMessage(TTS_PROMPTS.error_generic)
FeedCatch == <<Call("onSetTtsMessage", "error_generic", "", 0)>>

\* switch (intent) of FeedScreen.handleCommand
FeedSwitch(c, intent, target) ==
  CASE intent = "intent_next_post"     -> FeedNextPost(c)
    [] intent = "intent_previous_post" -> FeedPreviousPost(c)
    [] intent = "intent_play_post"     -> FeedPlayPost(c)
    [] intent = "intent_pause_post"    -> FeedPausePost
    [] intent = "intent_like"          -> FeedLike(c, target)
    [] intent \in {"intent_comment", "intent_view_comments",
                   "intent_view_comments_by_author"} -> FeedViewComments(c, target)
    [] intent = "intent_open_profile"  -> FeedOpenProfile(c, target)
    [] intent = "intent_create_post"   -> NoEffect(<<Call("onStartCreatePost", "", "", 0)>>)
    [] intent = "intent_open_friends_page" -> NoEffect(<<Call("onNavigate", "FRIENDS", "", 0)>>)
    [] intent = "intent_open_messages" -> NoEffect(<<Call("onNavigate", "CONVERSATIONS", "", 0)>>)
    [] intent = "intent_open_settings" -> NoEffect(<<Call("onNavigate", "SETTINGS", "", 0)>>)
    [] intent = "intent_search_user"   -> FeedSearchUser(target)
    [] intent = "intent_scroll_down"   -> FeedSetScroll("down")
    [] intent = "intent_scroll_up"     -> FeedSetScroll("up")
    [] intent = "intent_stop_scroll"   -> FeedSetScroll("none")
    [] intent = "intent_help"          -> NoEffect(<<Call("onSetTtsMessage", "feed_loaded", "", 0)>>)
    [] OTHER                           -> FeedDefault

\* ------------------------------------------------------ FeedScreen effects
\* Effect for programmatic scrolling (deps [currentPostIndex, posts]): its cleanup
\* clears the pending timeout; it sets a new one when a card is scrolled to.
\* TRUE: a timeout that will clear isProgrammaticScroll is pending.
ProgScrollEffect(idx2, ps2, loading2, prog2) ==
  IF idx2 = currentPostIndex /\ ps2 = posts
  THEN scrollTimeout
  ELSE /\ ~(isInitialLoad \/ Len(ps2) = 0 \/ JsLt(idx2, 0) \/ ~prog2)
       /\ ~loading2 /\ HasPost(ps2, idx2)

\* Effect of deps [posts, isLoading] that ends the initial load
InitialLoadEffect(ps2, loading2) ==
  IF (ps2 # posts \/ loading2 # isLoading) /\ Len(ps2) > 0 /\ ~loading2
  THEN FALSE
  ELSE isInitialLoad

\* One render of FeedScreen with the given state and props, and its effects.
FeedRender(idx2, playing2, scroll2, prog2, ps2, loading2) ==
  /\ currentPostIndex' = idx2
  /\ isPlaying' = playing2
  /\ scrollState' = scroll2
  /\ isProgrammaticScroll' = prog2
  /\ posts' = ps2
  /\ isLoading' = loading2
  /\ scrollTimeout' = ProgScrollEffect(idx2, ps2, loading2, prog2)
  /\ isInitialLoad' = InitialLoadEffect(ps2, loading2)

\* handleCommand is re-created when posts or currentPostIndex change (its
\* dependency list; the callback props are taken to be stable)
FeedIdentityChanged(idx2, ps2) == idx2 # currentPostIndex \/ ps2 # posts

\* an environment step of the feed: a render with new state or props
FeedEnvStep(idx2, playing2, prog2, ps2, loading2) ==
  /\ comp = "feed"
  /\ Quiet
  /\ Room
  /\ FeedRender(idx2, playing2, scrollState, prog2, ps2, loading2)
  /\ inv' = RunCommandEffect(lastCommand, FeedIdentityChanged(idx2, ps2), ps2, idx2,
                             recordingState, duration)
  /\ ev' = EnvEv
  /\ out' = <<>>
  /\ UNCHANGED <<comp, lastCommand, msgVars, scrollVars, proxyVars, chatVars>>

\* the parent finishes loading and passes the posts
FinishLoading(n) ==
  /\ isLoading
  /\ FeedEnvStep(currentPostIndex, isPlaying, isProgrammaticScroll, Feed(n), FALSE)

\* the parent passes another posts list
SetPosts(n) ==
  /\ ~isLoading
  /\ Feed(n) # posts
  /\ FeedEnvStep(currentPostIndex, isPlaying, isProgrammaticScroll, Feed(n), FALSE)

\* IntersectionObserver callback: the most visible card is card j
ObserverUpdate(j) ==
  /\ ~isLoading
  /\ HasPost(posts, j)
  /\ ~isProgrammaticScroll
  /\ currentPostIndex # j
  /\ FeedEnvStep(j, FALSE, isProgrammaticScroll, posts, isLoading)

\* PostCard onPlayPause of card j
PlayPauseClick(j) ==
  /\ ~isLoading
  /\ HasPost(posts, j)
  /\ ~PostOf(posts, j).sponsored
  /\ IF j = currentPostIndex
     THEN FeedEnvStep(currentPostIndex, ~isPlaying, isProgrammaticScroll, posts, isLoading)
     ELSE FeedEnvStep(j, TRUE, TRUE, posts, isLoading)

\* the timeout set by the programmatic-scroll effect fires
ScrollTimeoutFires ==
  /\ comp = "feed"
  /\ Quiet
  /\ scrollTimeout
  /\ isProgrammaticScroll' = FALSE
  /\ scrollTimeout' = FALSE
  /\ ev' = EnvEv
  /\ out' = <<>>
  /\ UNCHANGED <<comp, lastCommand, inv, msgVars, isLoading, posts,
                 currentPostIndex, isPlaying, scrollState, isInitialLoad,
                 scrollVars, proxyVars, chatVars>>

\* ------------------------------------------------------------ commands
\* The parent sets lastCommand (one command at a time); the lastCommand effect
\* calls handleCommand(lastCommand).
IssueCommand ==
  /\ comp \in {"feed", "message"}
  /\ Quiet
  /\ lastCommand = Null
  /\ FreeSlots # {}
  /\ lastCommand' = "cmd"
  /\ inv' = Start(Invocation(posts, currentPostIndex, recordingState, duration))
  /\ ev' = EnvEv
  /\ out' = <<>>
  /\ UNCHANGED <<comp, feedVars, msgVars, scrollVars, proxyVars, chatVars>>

\* slot values worth telling apart for an intent
TargetsFor(intent) ==
  IF intent \in {"intent_like", "intent_comment", "intent_view_comments",
                 "intent_view_comments_by_author", "intent_open_profile",
                 "intent_search_user"}
  THEN Targets
  ELSE {Absent}

\* a finally block that calls the callback twice
FinallyTwice == <<Call("onCommandProcessed", "", "", 0), Call("onCommandProcessed", "", "", 0)>>

\* finally: onCommandProcessed()
Finally == <<Call("onCommandProcessed", "", "", 0)>>

\* processIntent rejects: catch, finally
FeedDeliverRejected(i) ==
  /\ inv' = [inv EXCEPT ![i] = Free]
  /\ lastCommand' = OnCommandProcessed
  /\ out' = FeedCatch \o Finally
  /\ ev' = Ev("deliver", "rejected", "", Absent)
  /\ UNCHANGED feedVars

\* processIntent resolves and the switch runs to its break, or to its await
FeedDeliverResolved(i, intent, target) ==
  LET e == FeedSwitch(inv[i], intent, target) IN
  /\ ev' = Ev("deliver", "resolved", intent, target)
  /\ IF e.query # Absent
     THEN /\ inv' = [inv EXCEPT ![i].pc = "awaitSearch", ![i].query = e.query]
          /\ out' = e.calls
          /\ UNCHANGED <<lastCommand, feedVars>>
     ELSE /\ inv' = [inv EXCEPT ![i] = Free]
          /\ lastCommand' = OnCommandProcessed
          /\ out' = e.calls \o Finally
          /\ FeedRender(e.idx, e.playing, e.scroll, e.prog, posts, isLoading)

\* processIntent resolves with a value that cannot be destructured (undefined):
\* the try block throws before the switch: catch, finally
FeedDeliverThrew(i) ==
  /\ ev' = Ev("deliver", "threw", "", Absent)
  /\ inv' = [inv EXCEPT ![i] = Free]
  /\ lastCommand' = OnCommandProcessed
  /\ out' = FeedCatch \o Finally
  /\ UNCHANGED feedVars

\* the continuation of FeedScreen.handleCommand after await processIntent
FeedDeliver(i) ==
  /\ comp = "feed"
  /\ Quiet
  /\ inv[i].pc = "awaitIntent"
  /\ \/ FeedDeliverRejected(i)
     \/ \E intent \in FeedClassified : \E target \in TargetsFor(intent) :
          FeedDeliverResolved(i, intent, target)
     \/ FeedDeliverThrew(i)
  /\ UNCHANGED <<comp, msgVars, scrollVars, proxyVars, chatVars>>

\* the continuation after await searchUsers: resolved (store, navigate) or rejected
FeedSearchSettles(i) ==
  /\ comp = "feed"
  /\ Quiet
  /\ inv[i].pc = "awaitSearch"
  /\ \E result \in {"resolved", "rejected"} :
       /\ ev' = Ev("searchSettled", result, "intent_search_user", inv[i].query)
       /\ out' = IF result = "resolved"
                 THEN <<Call("setSearchResults", "", inv[i].query, 0),
                        Call("onNavigate", "SEARCH_RESULTS", inv[i].query, 0)>> \o Finally
                 ELSE FeedCatch \o Finally
  /\ inv' = [inv EXCEPT ![i] = Free]
  /\ lastCommand' = OnCommandProcessed
  /\ UNCHANGED <<comp, msgVars, feedVars, scrollVars, proxyVars, chatVars>>

\* ---------------------------------------------------------- MessageScreen
\* keys of CHAT_THEMES (constants.ts, not part of the sources: 'default' is the
\* one key the screen names)
ChatThemes == {"default", "ocean"}

\* values the classifier may put in slots.theme_name
ThemeSlots == {Absent, "Ocean", "neon"}

\* String.prototype.toLowerCase on the slot values
ToLowerCase(s) == IF s = "Ocean" THEN "ocean" ELSE s

\* What a handler of the message screen does: the state it sets, the calls it
\* makes, the send call it starts (its duration argument) and the theme-save or
\* delete call it starts.
MsgEffect(rs, d, timer, theme, calls, sends, starts) ==
  [rs |-> rs, d |-> d, timer |-> timer, theme |-> theme,
   calls |-> calls, sends |-> sends, starts |-> starts]

MsgNoEffect(calls) ==
  MsgEffect(recordingState, duration, timerOn, currentTheme, calls, <<>>, <<>>)

\* startRecording: setRecordingState(RECORDING), the prompt, startTimer()
StartRecording ==
  MsgEffect("RECORDING", 0, TRUE, currentTheme,
            <<Call("onSetTtsMessage", "message_record_start", "", 0)>>, <<>>, <<>>)

\* stopRecording of the render whose duration is d: stopTimer(), setRecordingState(PREVIEW)
StopRecording(d) ==
  MsgEffect("PREVIEW", duration, FALSE, currentTheme,
            <<Call("onSetTtsMessage", "message_record_stopped", "", d)>>, <<>>, <<>>)

\* sendMessage of the render whose duration is d, up to its await
SendMessage(d) ==
  MsgEffect("UPLOADING", duration, timerOn, currentTheme,
            <<Call("onSetTtsMessage", "Sending...", "", 0),
              Call("geminiService.sendMessage", "", "", d)>>, <<d>>, <<>>)

\* handleDeleteChat up to its await: the confirmation dialog, then the delete call
HandleDeleteChat(accepted) ==
  IF accepted
  THEN MsgEffect(recordingState, duration, timerOn, currentTheme,
                 <<Call("window.confirm", "delete", "", 1),
                   Call("geminiService.deleteChatHistory", "", "", 0)>>, <<>>, <<"delete">>)
  ELSE MsgNoEffect(<<Call("window.confirm", "delete", "", 0)>>)

\* handleThemeChange up to its await: setCurrentTheme, then the save call
HandleThemeChange(theme) ==
  MsgEffect(recordingState, duration, timerOn, theme,
            <<Call("geminiService.updateChatSettings", theme, "", 0)>>, <<>>, <<"theme">>)

\* case 'intent_change_chat_theme'
MsgChangeTheme(slot) ==
  IF slot # Absent /\ slot # "" /\ ToLowerCase(slot) \in ChatThemes
  THEN HandleThemeChange(ToLowerCase(slot))
  ELSE MsgNoEffect(<<>>)

\* switch (intentResponse.intent) of MessageScreen.handleCommand; it has no default
MsgSwitch(c, intent, slot, accepted) ==
  CASE intent = "intent_record_message" ->
         IF c.cRec = "IDLE" THEN StartRecording ELSE MsgNoEffect(<<>>)
    [] intent = "intent_stop_recording" ->
         IF c.cRec = "RECORDING" THEN StopRecording(c.cDur) ELSE MsgNoEffect(<<>>)
    [] intent = "intent_send_chat_message" ->
         IF c.cRec = "PREVIEW" THEN SendMessage(c.cDur) ELSE MsgNoEffect(<<>>)
    [] intent = "intent_re_record" ->
         IF c.cRec = "PREVIEW" THEN StartRecording ELSE MsgNoEffect(<<>>)
    [] intent = "intent_delete_chat" -> HandleDeleteChat(accepted)
    [] intent = "intent_change_chat_theme" -> MsgChangeTheme(slot)
    [] OTHER -> MsgNoEffect(<<>>)

\* catch (error): console.error only
MsgCatch == <<>>

\* the bound of the model on send calls and on theme-save and delete calls
SendRoom(e) == Len(messages) + Len(uploads) + Len(e.sends) <= MaxUploads

PendingRoom(e) == Len(pending) + Len(e.starts) <= MaxPending

\* MessageScreen re-renders when its state changes; handleCommand is re-created
\* on every render (sendMessage, handleDeleteChat and handleThemeChange, in its
\* dependency list, are new functions each render)
MsgIdentityChanged(rs2, d2, msgs2, theme2) ==
  <<rs2, d2, msgs2, theme2>> # <<recordingState, duration, messages, currentTheme>>

\* the state and refs after a handler ran
MsgCommit(e, msgs2) ==
  /\ recordingState' = e.rs
  /\ duration' = e.d
  /\ timerOn' = e.timer
  /\ currentTheme' = e.theme
  /\ messages' = msgs2
  /\ uploads' = uploads \o e.sends
  /\ pending' = pending \o e.starts

\* an environment step of the message screen: a handler runs, the screen
\* renders, the lastCommand effect runs
MsgEnvStep(e, msgs2, ups2, pend2) ==
  /\ comp = "message"
  /\ Quiet
  /\ Room
  /\ SendRoom(e)
  /\ PendingRoom(e)
  /\ recordingState' = e.rs
  /\ duration' = e.d
  /\ timerOn' = e.timer
  /\ currentTheme' = e.theme
  /\ messages' = msgs2
  /\ uploads' = ups2 \o e.sends
  /\ pending' = pend2 \o e.starts
  /\ inv' = RunCommandEffect(lastCommand, MsgIdentityChanged(e.rs, e.d, msgs2, e.theme),
                             posts, currentPostIndex, e.rs, e.d)
  /\ ev' = EnvEv
  /\ out' = <<>>
  /\ UNCHANGED <<comp, lastCommand, feedVars, scrollVars, proxyVars, chatVars>>

\* the footer button of the Idle state
ClickRecord ==
  /\ recordingState = "IDLE"
  /\ MsgEnvStep(StartRecording, messages, uploads, pending)

\* the footer button of the Recording state
ClickStop ==
  /\ recordingState = "RECORDING"
  /\ MsgEnvStep(StopRecording(duration), messages, uploads, pending)

\* the footer buttons of the Preview state
ClickReRecord ==
  /\ recordingState = "PREVIEW"
  /\ MsgEnvStep(StartRecording, messages, uploads, pending)

ClickSend ==
  /\ recordingState = "PREVIEW"
  /\ MsgEnvStep(SendMessage(duration), messages, uploads, pending)

\* the interval set by startTimer fires: setDuration(d => d + 1)
Tick ==
  /\ timerOn
  /\ duration < MaxDuration
  /\ MsgEnvStep(MsgEffect(recordingState, duration + 1, timerOn, currentTheme, <<>>, <<>>, <<>>),
                messages, uploads, pending)

Remove(q, k) == [j \in 1..(Len(q) - 1) |-> IF j < k THEN q[j] ELSE q[j + 1]]

\* sendMessage after its await: the message is appended, the state is Idle again
UploadCompletes(k) ==
  /\ k \in DOMAIN uploads
  /\ MsgEnvStep(MsgEffect("IDLE", 0, timerOn, currentTheme, <<>>, <<>>, <<>>),
                Append(messages, uploads[k]), Remove(uploads, k), pending)

\* geminiService.sendMessage rejects: sendMessage ends at its await
UploadFails(k) ==
  /\ k \in DOMAIN uploads
  /\ MsgEnvStep(MsgNoEffect(<<>>), messages, Remove(uploads, k), pending)

\* handleThemeChange or handleDeleteChat after its await
PendingSettles(k) ==
  /\ k \in DOMAIN pending
  /\ MsgEnvStep(MsgNoEffect(<<>>), messages, uploads, Remove(pending, k))

\* The menu button Block User: setMenuOpen(false); onBlockUser(recipientUser).
\* The menu closes, the screen renders and the lastCommand effect runs.
ClickBlockUser ==
  /\ comp = "message"
  /\ Quiet
  /\ Room
  /\ ev' = Ev("click", "block", "", Absent)
  /\ out' = <<Call("onBlockUser", "", "", 0)>>
  /\ inv' = RunCommandEffect(lastCommand, TRUE, posts, currentPostIndex,
                             recordingState, duration)
  /\ UNCHANGED <<comp, lastCommand, feedVars, msgVars, scrollVars, proxyVars, chatVars>>

\* The menu button Delete Chat: handleDeleteChat up to its await
ClickDeleteChat(accepted) ==
  LET e == HandleDeleteChat(accepted) IN
  /\ comp = "message"
  /\ Quiet
  /\ PendingRoom(e)
  /\ ev' = Ev("click", "delete", "", Absent)
  /\ out' = e.calls
  /\ pending' = pending \o e.starts
  /\ UNCHANGED <<comp, lastCommand, inv, feedVars, scrollVars, proxyVars,
                 recordingState, duration, timerOn, messages, uploads, currentTheme, chatVars>>

\* processIntent rejects, or resolves with a value the switch cannot read
\* (undefined, a theme_name that is not a string): catch, finally
MsgDeliverFailed(i, result) ==
  /\ ev' = Ev("deliver", result, "", Absent)
  /\ out' = MsgCatch \o Finally
  /\ UNCHANGED msgVars

\* processIntent resolves and the switch runs
MsgDeliverResolved(i, intent, slot, accepted) ==
  LET e == MsgSwitch(inv[i], intent, slot, accepted) IN
  /\ SendRoom(e)
  /\ PendingRoom(e)
  /\ ev' = Ev("deliver", "resolved", intent, slot)
  /\ out' = e.calls \o Finally
  /\ MsgCommit(e, messages)

\* the continuation of MessageScreen.handleCommand after await processIntent
MsgDeliver(i) ==
  /\ comp = "message"
  /\ Quiet
  /\ inv[i].pc = "awaitIntent"
  /\ \/ \E result \in {"rejected", "threw"} : MsgDeliverFailed(i, result)
     \/ \E intent \in MsgClassified \ {"intent_delete_chat", "intent_change_chat_theme"} :
          MsgDeliverResolved(i, intent, Absent, FALSE)
     \/ \E accepted \in BOOLEAN : MsgDeliverResolved(i, "intent_delete_chat", Absent, accepted)
     \/ \E slot \in ThemeSlots : MsgDeliverResolved(i, "intent_change_chat_theme", slot, FALSE)
  /\ inv' = [inv EXCEPT ![i] = Free]
  /\ lastCommand' = OnCommandProcessed
  /\ UNCHANGED <<comp, feedVars, scrollVars, proxyVars, chatVars>>

\* ------------------------------------------------------------ api/proxy.ts
\* req.method
Methods == {"POST", "GET"}

\* req.body.action: the two actions, another string, or no action field
ProxyActions == {"processIntent", "generateImage", "deleteAll", Absent}

\* req.body: undefined (present = FALSE), or an object with its action field and
\* with or without a payload object
NoBody == [present |-> FALSE, action |-> Absent, payload |-> FALSE]

Bodies ==
  {NoBody} \cup {[present |-> TRUE, action |-> a, payload |-> pl] :
                   a \in ProxyActions, pl \in BOOLEAN}

NoRequest == [method |-> "", body |-> NoBody]

\* res.status(status).json(body): the body is {error, details?} or the value sent
Response(status, error, details, value) ==
  [status |-> status, error |-> error, details |-> details, value |-> value]

ErrorResponse(status, error) == Response(status, error, FALSE, <<>>)

\* The text of the classifier's answer as words: a code fence, the word json
\* after the opening fence, one JSON value, words that are not JSON.
\* three backquotes
Fence == "<fence>"

\* the JSON values the classifier may send: an intent result with intent
\* 'unknown', another intent result, and a value that is no intent result
JsonValues == {"{intent:unknown}", "{intent:intent_like}", "null"}

Texts ==
  UNION {{<<v>>, <<Fence, "json", v, Fence>>, <<Fence, v, Fence>>, <<v, "sorry">>} :
           v \in JsonValues}
    \cup {<<>>, <<"sorry">>, <<Fence, "json", "sorry", Fence>>, <<Fence, "json">>}

\* text.replace(...): a fence at the start, and the word json after it, are removed
StripOpeningFence(t) ==
  IF t # <<>> /\ Head(t) = Fence
  THEN IF Tail(t) # <<>> /\ Head(Tail(t)) = "json" THEN Tail(Tail(t)) ELSE Tail(t)
  ELSE t

\* .replace(...): a fence at the end is removed
StripClosingFence(t) ==
  IF t # <<>> /\ t[Len(t)] = Fence THEN SubSeq(t, 1, Len(t) - 1) ELSE t

\* jsonText
JsonText(t) == StripClosingFence(StripOpeningFence(t))

\* a parser that reads the first value and ignores what follows
ParsesLeniently(t) == t # <<>> /\ t[1] \in JsonValues

\* JSON.parse(jsonText) returns: the text is exactly one JSON value
Parses(t) == Len(t) = 1 /\ t[1] \in JsonValues

\* how an awaited upstream call settled
Outcome(kind, text, images) == [kind |-> kind, text |-> text, images |-> images]

NoOutcome == Outcome("none", <<>>, <<>>)

\* generateContent settles: it throws, or returns a response with or without text
ContentOutcomes ==
  {Outcome("throws", <<>>, <<>>), Outcome("noText", <<>>, <<>>)}
    \cup {Outcome("text", t, <<>>) : t \in Texts}

\* One entry of generatedImages: with an image and its bytes, with an image that
\* has no bytes, or without an image.
GeneratedImage(image, bytes) == [image |-> image, bytes |-> bytes]

ImageLists ==
  {<<>>,
   <<GeneratedImage(TRUE, "b1")>>,
   <<GeneratedImage(TRUE, "b1"), GeneratedImage(TRUE, "b2")>>,
   <<GeneratedImage(TRUE, "b2"), GeneratedImage(FALSE, Absent)>>,
   <<GeneratedImage(TRUE, Absent)>>,
   <<GeneratedImage(FALSE, Absent)>>}

\* generateImages settles: it throws, or returns a response with generatedImages
\* undefined or a list
ImageOutcomes ==
  {Outcome("throws", <<>>, <<>>), Outcome("noImages", <<>>, <<>>)}
    \cup {Outcome("images", <<>>, l) : l \in ImageLists}

\* the template string data:image/jpeg;base64, followed by base64ImageBytes
DataUrl(bytes) ==
  <<"data:image/jpeg;base64,", IF bytes = Absent THEN "undefined" ELSE bytes>>

\* What the handler did up to its await or its return: where it is, the
\* responses sent, the upstream calls made.
Handled(pc, res, calls) == [pc |-> pc, res |-> res, calls |-> calls]

Sent(r) == Handled("done", <<r>>, 0)

\* if (req.method !== 'POST')
MethodNotAllowed == ErrorResponse(405, "Method Not Allowed")

\* if (!apiKey)
KeyNotConfigured == ErrorResponse(500, "API_KEY not configured on the server")

\* a default case that answers 500
InvalidActionAs500 == ErrorResponse(500, "Invalid action")

\* default:
InvalidAction == ErrorResponse(400, "Invalid action")

\* catch (error): 500 with error and details
InternalError == Response(500, "An internal server error occurred", TRUE, <<>>)

\* the else branch of case 'generateImage'
ImageGenerationFailed == ErrorResponse(500, "Image generation failed")

\* switch (action) up to the await of a case; destructuring an undefined payload
\* throws inside the try block
ProxySwitch(action, payload) ==
  CASE action = "processIntent" ->
         IF payload THEN Handled("awaitContent", <<>>, 1) ELSE Sent(InternalError)
    [] action = "generateImage" ->
         IF payload THEN Handled("awaitImages", <<>>, 1) ELSE Sent(InternalError)
    [] OTHER -> Sent(InvalidAction)

\* a handler that reads the API key before it looks at the method
HandlerKeyFirst(req, key) ==
  IF ~key THEN Sent(KeyNotConfigured)
  ELSE IF req.method # "POST" THEN Sent(MethodNotAllowed)
  ELSE IF ~req.body.present THEN Handled("escaped", <<>>, 0)
  ELSE ProxySwitch(req.body.action, req.body.payload)

\* handler(req, res) up to its first await: the method test, the destructuring of
\* req.body (it throws outside the try block when the body is undefined), the
\* API key test, the switch
Handler(req, key) ==
  IF req.method # "POST" THEN Sent(MethodNotAllowed)
  ELSE IF ~req.body.present THEN Handled("escaped", <<>>, 0)
  ELSE IF ~key THEN Sent(KeyNotConfigured)
  ELSE ProxySwitch(req.body.action, req.body.payload)

\* a case 'processIntent' that answers with the first value it can read
ContentResponseLenient(o) ==
  IF o.kind = "text" /\ ParsesLeniently(JsonText(o.text))
  THEN Response(200, "", FALSE, <<JsonText(o.text)[1]>>)
  ELSE InternalError

\* case 'processIntent' after its await: trim, strip the fences, JSON.parse,
\* res.status(200).json(parsed); whatever throws is caught
ContentResponse(o) ==
  IF o.kind = "text" /\ Parses(JsonText(o.text))
  THEN Response(200, "", FALSE, JsonText(o.text))
  ELSE InternalError

\* a case 'generateImage' that answers 200 whatever came back
ImagesResponseUnchecked(o) ==
  IF o.kind = "images" /\ Len(o.images) > 0 /\ o.images[1].image
  THEN Response(200, "", FALSE, DataUrl(o.images[1].bytes))
  ELSE Response(200, "", FALSE, <<>>)

\* case 'generateImage' after its await
ImagesResponse(o) ==
  CASE o.kind = "throws" -> InternalError
    [] o.kind = "images" /\ Len(o.images) > 0 ->
         IF o.images[1].image
         THEN Response(200, "", FALSE, DataUrl(o.images[1].bytes))
         ELSE InternalError
    [] OTHER -> ImageGenerationFailed

\* A request arrives and the handler runs up to its return or its first await.
ProxyRequest ==
  /\ comp = "proxy"
  /\ handlerPc \in {"idle", "done", "escaped"}
  /\ \E m \in Methods, b \in Bodies, key \in BOOLEAN :
       LET req == [method |-> m, body |-> b]
           h   == Handler(req, key)
       IN /\ request' = req
          /\ apiKey' = key
          /\ handlerPc' = h.pc
          /\ responses' = h.res
          /\ upstreamCalls' = h.calls
  /\ upstream' = NoOutcome
  /\ UNCHANGED <<shared, feedVars, msgVars, scrollVars, chatVars>>

\* ai.models.generateContent settles and the handler runs to its return
GenerateContentSettles ==
  /\ comp = "proxy"
  /\ handlerPc = "awaitContent"
  /\ \E o \in ContentOutcomes :
       /\ upstream' = o
       /\ responses' = Append(responses, ContentResponse(o))
  /\ handlerPc' = "done"
  /\ UNCHANGED <<shared, feedVars, msgVars, scrollVars, request, apiKey, upstreamCalls, chatVars>>

\* ai.models.generateImages settles and the handler runs to its return
GenerateImagesSettles ==
  /\ comp = "proxy"
  /\ handlerPc = "awaitImages"
  /\ \E o \in ImageOutcomes :
       /\ upstream' = o
       /\ responses' = Append(responses, ImagesResponse(o))
  /\ handlerPc' = "done"
  /\ UNCHANGED <<shared, feedVars, msgVars, scrollVars, request, apiKey, upstreamCalls, chatVars>>

\* ------------------------------------------------- the scroll controllers
\* The scroll effects of FeedScreen and of MessageScreen (deps [scrollState]) and
\* the list they scroll, which is mounted only while the screen shows its list.
ScrollScreens == {"feedScroll", "msgScroll"}

\* scrollContainer.scrollTop += 2 / -= 2
ScrollStep == 2

\* A pending requestAnimationFrame callback of the effect: the scrollState its
\* closure holds and whether the element it holds is the mounted list.
Frame(dir, mounted) == [pending |-> TRUE, dir |-> dir, mounted |-> mounted]

\* no frame callback is pending
NoFrame == [pending |-> FALSE, dir |-> "none", mounted |-> FALSE]

\* The effect body, run after its cleanup cancelled the pending frame: without a
\* container or with scrollState 'none' it returns, else it requests a frame.
ScrollEffect(s) == IF ~shown \/ s = "none" THEN NoFrame ELSE Frame(s, TRUE)

\* The list is mounted: FeedScreen renders the container once isLoading is false
\* and posts is non-empty, MessageScreen once its isLoading is false.  The
\* scroll effect does not run: scrollState did not change.
ScrollListMounts ==
  /\ comp \in ScrollScreens
  /\ ~shown
  /\ shown' = TRUE
  /\ scrollTop' = ScrollStep
  /\ UNCHANGED <<shared, feedVars, msgVars, proxyVars, frame, chatVars>>

\* The list is unmounted (loading again, or the feed became empty); a pending
\* frame callback keeps the element that is no longer mounted.
ScrollListUnmounts ==
  /\ comp \in ScrollScreens
  /\ shown
  /\ shown' = FALSE
  /\ scrollTop' = 0
  /\ frame' = IF frame.pending THEN Frame(frame.dir, FALSE) ELSE frame
  /\ UNCHANGED <<shared, feedVars, msgVars, proxyVars, chatVars>>

\* The parent passes another scrollState: cleanup, then the effect body
SetScrollState(s) ==
  /\ comp \in ScrollScreens
  /\ s # scrollState
  /\ scrollState' = s
  /\ frame' = ScrollEffect(s)
  /\ UNCHANGED <<shared, msgVars, proxyVars, shown, scrollTop, isLoading, posts,
                 currentPostIndex, isPlaying, isInitialLoad, isProgrammaticScroll,
                 scrollTimeout, chatVars>>

\* animateScroll: the pending frame callback runs, moves its element by one step
\* and requests the next frame
AnimationFrame ==
  /\ comp \in ScrollScreens
  /\ frame.pending
  /\ LET top == IF ~frame.mounted THEN scrollTop
                ELSE IF frame.dir = "down" THEN scrollTop + ScrollStep
                ELSE scrollTop - ScrollStep
     IN /\ top \in 0..MaxScrollTop
        /\ scrollTop' = top
  /\ UNCHANGED <<shared, feedVars, msgVars, proxyVars, shown, frame, chatVars>>

\* ---------------------------------- MessageScreen: message list and playback
\* The message list of MessageScreen and the playback of its messages, apart
\* from the recording state machine.  Here messages holds the displayed Message
\* records and uploads the sendMessage calls in flight; which footer state a
\* send starts from is left to the recording state machine.  A behaviour
\* follows the list under changing recipients (comp = "chat") or the playback
\* of the messages of one recipient (comp = "playback").
ListScreens == {"chat", "playback"}

Recipients == {"r1", "r2"}

\* a Message: the conversation it belongs to and its id
Message(conv, id) == [conv |-> conv, id |-> id]

\* ids the data service gives the messages sent, in the order it stores them
SentIds == <<"s1", "s2", "s3", "s4">>

\* the one message each conversation holds before the session
History(conv) == Message(conv, IF conv = "r1" THEN "h1" ELSE "h2")

\* the messages of a conversation the data service holds from this session
StoredOf(conv) == SelectSeq(stored, LAMBDA m : m.conv = conv)

\* geminiService.getMessages(currentUser.id, recipientUser.id) in flight: the
\* conversation asked for and how many of its sent messages were stored when
\* the call was made
Fetch(conv, base) == [conv |-> conv, base |-> base]

\* what getMessages resolves with: the history and the first n sent messages
Fetched(conv, n) == <<History(conv)>> \o SubSeq(StoredOf(conv), 1, n)

\* geminiService.sendMessage(currentUser.id, recipientUser.id, duration) in
\* flight: the recipient and the playingMessageId of the render whose
\* sendMessage was called, and the message once the service stored it
Send(conv, cPlaying, id) == [conv |-> conv, cPlaying |-> cPlaying, id |-> id]

\* a pending setTimeout(() => setPlayingMessageId(null), msg.duration * 1000)
Timeout(id, msg) == [id |-> id, msg |-> msg]

\* a pending setTimeout(() => handlePlayMessage(newMessage), 300)
AutoPlay(msg, cPlaying) == [msg |-> msg, cPlaying |-> cPlaying]

\* if (playbackTimeoutRef.current) clearTimeout(playbackTimeoutRef.current)
ClearPlaybackTimeout == {t \in timeouts : t.id # playbackTimeoutRef}

Playback(playing, ref, pend, ids) ==
  [playing |-> playing, ref |-> ref, timeouts |-> pend, ids |-> ids]

\* a handlePlayMessage that does not clear the pending timeout
HandlePlayMessageKeeping(id, cPlaying) ==
  IF cPlaying = id
  THEN Playback(Null, playbackTimeoutRef, timeouts, timeoutIds)
  ELSE Playback(id, timeoutIds + 1, timeouts \cup {Timeout(timeoutIds + 1, id)},
                timeoutIds + 1)

\* handlePlayMessage(msg) of a render whose playingMessageId is cPlaying
HandlePlayMessage(id, cPlaying) ==
  IF cPlaying = id
  THEN Playback(Null, playbackTimeoutRef, ClearPlaybackTimeout, timeoutIds)
  ELSE Playback(id, timeoutIds + 1,
                ClearPlaybackTimeout \cup {Timeout(timeoutIds + 1, id)}, timeoutIds + 1)

\* state updates of an unmounted component are dropped, refs and timers are not
SetState(new, old) == IF screenMounted THEN new ELSE old

PlaybackCommit(e) ==
  /\ e.ids <= MaxTimeouts
  /\ playingMessageId' = SetState(e.playing, playingMessageId)
  /\ playbackTimeoutRef' = e.ref
  /\ timeouts' = e.timeouts
  /\ timeoutIds' = e.ids

\* what the steps of this part leave alone
chatFrame == <<shared, feedVars, scrollVars, proxyVars,
               recordingState, duration, timerOn, pending>>

playbackVars == <<playingMessageId, playbackTimeoutRef, timeouts, timeoutIds>>

\* The parent passes another recipientUser: the fetch effect (deps
\* [currentUser.id, recipientUser.id]) runs fetchChatData up to its await
RecipientChanges(r) ==
  /\ comp = "chat"
  /\ screenMounted
  /\ r # recipient
  /\ Cardinality(fetches) < MaxFetches
  /\ recipient' = r
  /\ listLoading' = TRUE
  /\ fetches' = fetches \cup {Fetch(r, Len(StoredOf(r)))}
  /\ UNCHANGED <<chatFrame, playbackVars, screenMounted, stored, autoPlays, messages, uploads,
                 currentTheme>>

\* fetchChatData after its await: setMessages, setCurrentTheme, setIsLoading(false).
\* No theme is saved in this part, so chatSettings.theme || 'default' is 'default'.
FetchSettles(f, n) ==
  /\ comp \in ListScreens
  /\ f \in fetches
  /\ n \in f.base..Len(StoredOf(f.conv))
  /\ fetches' = fetches \ {f}
  /\ messages' = SetState(Fetched(f.conv, n), messages)
  /\ currentTheme' = SetState("default", currentTheme)
  /\ listLoading' = SetState(FALSE, listLoading)
  /\ UNCHANGED <<chatFrame, playbackVars, screenMounted, recipient, stored, autoPlays, uploads>>

\* getMessages or getChatSettings rejects: fetchChatData ends at its await
FetchFails(f) ==
  /\ comp \in ListScreens
  /\ f \in fetches
  /\ fetches' = fetches \ {f}
  /\ UNCHANGED <<chatFrame, playbackVars, screenMounted, recipient, listLoading, stored,
                 autoPlays, messages, uploads, currentTheme>>

\* sendMessage up to its await, called from the Send button or from the voice
\* intent (handleCommand runs whether or not the list is loading)
SendStarts ==
  /\ comp \in ListScreens
  /\ screenMounted
  /\ Len(uploads) + Len(stored) < MaxSent
  /\ uploads' = Append(uploads, Send(recipient, playingMessageId, Absent))
  /\ UNCHANGED <<chatFrame, chatVars, messages, currentTheme>>

\* the data service stores the message of a send call and gives it its id
ServiceStores(k) ==
  /\ comp \in ListScreens
  /\ k \in DOMAIN uploads
  /\ uploads[k].id = Absent
  /\ uploads' = [uploads EXCEPT ![k].id = SentIds[Len(stored) + 1]]
  /\ stored' = Append(stored, Message(uploads[k].conv, SentIds[Len(stored) + 1]))
  /\ UNCHANGED <<chatFrame, playbackVars, screenMounted, recipient, listLoading, fetches,
                 autoPlays, messages, currentTheme>>

\* sendMessage after its await: setMessages(m => [...m, newMessage]) and
\* setTimeout(() => handlePlayMessage(newMessage), 300)
SendCompletes(k) ==
  /\ comp \in ListScreens
  /\ k \in DOMAIN uploads
  /\ uploads[k].id # Absent
  /\ messages' = SetState(Append(messages, Message(uploads[k].conv, uploads[k].id)), messages)
  /\ autoPlays' = autoPlays \cup {AutoPlay(uploads[k].id, uploads[k].cPlaying)}
  /\ uploads' = Remove(uploads, k)
  /\ UNCHANGED <<chatFrame, playbackVars, screenMounted, recipient, listLoading, fetches, stored,
                 currentTheme>>

\* geminiService.sendMessage rejects: sendMessage ends at its await
SendFails(k) ==
  /\ comp \in ListScreens
  /\ k \in DOMAIN uploads
  /\ uploads' = Remove(uploads, k)
  /\ UNCHANGED <<chatFrame, chatVars, messages, currentTheme>>

\* the play button of a displayed message: handlePlayMessage of the current render
PlayClick(id) ==
  /\ comp = "playback"
  /\ screenMounted
  /\ ~listLoading
  /\ \E k \in DOMAIN messages : messages[k].id = id
  /\ PlaybackCommit(HandlePlayMessage(id, playingMessageId))
  /\ UNCHANGED <<chatFrame, screenMounted, recipient, listLoading, fetches, stored, autoPlays,
                 messages, uploads, currentTheme>>

\* the 300 ms timeout of sendMessage fires: handlePlayMessage of the render
\* whose sendMessage was called
AutoPlayFires(a) ==
  /\ comp = "playback"
  /\ a \in autoPlays
  /\ autoPlays' = autoPlays \ {a}
  /\ PlaybackCommit(HandlePlayMessage(a.msg, a.cPlaying))
  /\ UNCHANGED <<chatFrame, screenMounted, recipient, listLoading, fetches, stored,
                 messages, uploads, currentTheme>>

\* an auto-stop timeout fires: setPlayingMessageId(null)
AutoStopFires(t) ==
  /\ comp = "playback"
  /\ t \in timeouts
  /\ timeouts' = timeouts \ {t}
  /\ playingMessageId' = SetState(Null, playingMessageId)
  /\ UNCHANGED <<chatFrame, screenMounted, recipient, listLoading, fetches, stored, autoPlays,
                 messages, uploads, currentTheme, playbackTimeoutRef, timeoutIds>>

\* the screen unmounts: the cleanup clears the playback timeout
Unmount ==
  /\ comp \in ListScreens
  /\ screenMounted
  /\ screenMounted' = FALSE
  /\ timeouts' = ClearPlaybackTimeout
  /\ UNCHANGED <<chatFrame, recipient, listLoading, fetches, stored, autoPlays,
                 messages, uploads, currentTheme, playingMessageId, playbackTimeoutRef,
                 timeoutIds>>

\* the observation of the last step is dropped
Observed ==
  /\ ~Quiet
  /\ ev' = EnvEv
  /\ out' = <<>>
  /\ UNCHANGED <<comp, lastCommand, inv, feedVars, msgVars, scrollVars, proxyVars, chatVars>>

\* ----------------------------------------------------------------- Init
Init ==
  /\ comp \in {"feed", "message", "proxy"} \cup ScrollScreens \cup ListScreens
  /\ lastCommand = Null
  /\ inv = [i \in Slots |-> Free]
  /\ ev = EnvEv
  /\ out = <<>>
  /\ isLoading = TRUE
  /\ posts = <<>>
  /\ currentPostIndex = -1
  /\ isPlaying = FALSE
  /\ scrollState = "none"
  /\ isInitialLoad = TRUE
  /\ isProgrammaticScroll = FALSE
  /\ scrollTimeout = FALSE
  /\ recordingState = "IDLE"
  /\ duration = 0
  /\ timerOn = FALSE
  /\ messages = <<>>
  /\ uploads = <<>>
  /\ pending = <<>>
  /\ currentTheme = "default"
  /\ shown = FALSE
  /\ frame = NoFrame
  /\ scrollTop = 0
  /\ request = NoRequest
  /\ apiKey = FALSE
  /\ handlerPc = "idle"
  /\ responses = <<>>
  /\ upstreamCalls = 0
  /\ upstream = NoOutcome
  /\ screenMounted = TRUE
  /\ recipient = "r1"
  /\ listLoading = TRUE
  /\ fetches = {Fetch("r1", 0)}
  /\ stored = <<>>
  /\ playingMessageId = Null
  /\ playbackTimeoutRef = 0
  /\ timeouts = {}
  /\ autoPlays = {}
  /\ timeoutIds = 0

Next ==
  \/ Observed
  \/ IssueCommand
  \/ \E n \in 0..MaxPosts : FinishLoading(n)
  \/ \E n \in 0..MaxPosts : SetPosts(n)
  \/ \E j \in 0..(MaxPosts - 1) : ObserverUpdate(j)
  \/ \E j \in 0..(MaxPosts - 1) : PlayPauseClick(j)
  \/ ScrollTimeoutFires
  \/ \E i \in Slots : FeedDeliver(i)
  \/ \E i \in Slots : FeedSearchSettles(i)
  \/ ClickRecord
  \/ ClickStop
  \/ ClickReRecord
  \/ ClickSend
  \/ Tick
  \/ \E k \in 1..MaxUploads : UploadCompletes(k)
  \/ \E k \in 1..MaxUploads : UploadFails(k)
  \/ \E k \in 1..MaxPending : PendingSettles(k)
  \/ ClickBlockUser
  \/ \E accepted \in BOOLEAN : ClickDeleteChat(accepted)
  \/ \E i \in Slots : MsgDeliver(i)
  \/ ScrollListMounts
  \/ ScrollListUnmounts
  \/ \E s \in {"up", "down", "none"} : SetScrollState(s)
  \/ AnimationFrame
  \/ ProxyRequest
  \/ GenerateContentSettles
  \/ GenerateImagesSettles
  \/ \E r \in Recipients : RecipientChanges(r)
  \/ \E f \in fetches : \E n \in 0..MaxSent : FetchSettles(f, n)
  \/ \E f \in fetches : FetchFails(f)
  \/ SendStarts
  \/ \E k \in 1..MaxSent : ServiceStores(k)
  \/ \E k \in 1..MaxSent : SendCompletes(k)
  \/ \E k \in 1..MaxSent : SendFails(k)
  \/ \E id \in {"h1", "h2"} \cup {SentIds[n] : n \in 1..MaxSent} : PlayClick(id)
  \/ \E a \in autoPlays : AutoPlayFires(a)
  \/ \E t \in timeouts : AutoStopFires(t)
  \/ Unmount

Spec == Init /\ [][Next]_vars

\* ------------------------------------------------------------ fairness
\* The part of Next the liveness claims are checked on: every continuation of
\* handleCommand, the commands, and the environment steps that start further
\* invocations while a command is pending.
LiveNext ==
  \/ Observed
  \/ IssueCommand
  \/ \E n \in 0..MaxPosts : FinishLoading(n)
  \/ \E i \in Slots : FeedDeliver(i)
  \/ \E i \in Slots : FeedSearchSettles(i)
  \/ ClickRecord
  \/ Tick
  \/ \E i \in Slots : MsgDeliver(i)

\* Every awaited call settles (the assumption the claims state), and the
\* observation of a step is dropped.  The continuations are strongly fair
\* because an observation pending from another step disables them for a moment.
FairSpec ==
  /\ Init
  /\ [][LiveNext]_vars
  /\ WF_vars(Observed)
  /\ \A i \in Slots :
       SF_vars(FeedDeliver(i)) /\ SF_vars(FeedSearchSettles(i)) /\ SF_vars(MsgDeliver(i))

\* The Feed screen alone, with everything that can happen to it.
FeedInit == Init /\ comp = "feed"

FeedNext ==
  \/ Observed
  \/ IssueCommand
  \/ \E n \in 0..MaxPosts : FinishLoading(n)
  \/ \E n \in 0..MaxPosts : SetPosts(n)
  \/ \E j \in 0..(MaxPosts - 1) : ObserverUpdate(j)
  \/ \E j \in 0..(MaxPosts - 1) : PlayPauseClick(j)
  \/ ScrollTimeoutFires
  \/ \E i \in Slots : FeedDeliver(i)
  \/ \E i \in Slots : FeedSearchSettles(i)

\* A pending timeout fires unless its effect's cleanup cleared it, every awaited
\* call settles, and the observation of a step is dropped.  What the user and
\* the parent do (commands, clicks, scrolling, new posts) is not forced.
FeedFairSpec ==
  /\ FeedInit
  /\ [][FeedNext]_vars
  /\ WF_vars(Observed)
  /\ SF_vars(ScrollTimeoutFires)
  /\ \A i \in Slots : SF_vars(FeedDeliver(i)) /\ SF_vars(FeedSearchSettles(i))

\* ================================================================ claims
FeedStep(kinds, results) ==
  comp = "feed" /\ ev'.kind \in kinds /\ ev'.result \in results

MsgStep(results) ==
  comp = "message" /\ ev'.kind = "deliver" /\ ev'.result \in results

\* invocation i took its last step: its finally block ran
Returns(i) == inv[i].pc # "free" /\ inv'[i].pc = "free"

\* handleCommand was called: invocation i starts
Started(i) == inv[i].pc = "free" /\ inv'[i].pc # "free"

GenericError == Call("onSetTtsMessage", "error_generic", "", 0)

CommandProcessed == Call("onCommandProcessed", "", "", 0)

ProcessedCalls(o) == Cardinality({k \in DOMAIN o : o[k].fn = "onCommandProcessed"})

LegalEdges ==
  {<<"IDLE", "RECORDING">>, <<"RECORDING", "PREVIEW">>, <<"PREVIEW", "UPLOADING">>,
   <<"PREVIEW", "RECORDING">>, <<"UPLOADING", "IDLE">>}

\* C1 (as claimed): every change of recordingState is one of the edges
\* Idle->Recording, Recording->Preview, Preview->Uploading, Preview->Recording,
\* Uploading->Idle, and a classification result starts a recording only from
\* Idle or Preview.
C1_OnlyLegalEdges ==
  [][/\ recordingState' # recordingState => <<recordingState, recordingState'>> \in LegalEdges
     /\ (MsgStep({"resolved"}) /\ out' # <<>> /\ out'[1].arg = "message_record_start")
          => recordingState \in {"IDLE", "PREVIEW"}]_vars

\* the intent is not valid in recording state rs
InvalidIn(intent, rs) ==
  \/ intent = "intent_record_message" /\ rs # "IDLE"
  \/ intent = "intent_stop_recording" /\ rs # "RECORDING"
  \/ intent \in {"intent_send_chat_message", "intent_re_record"} /\ rs # "PREVIEW"

\* C2 (as claimed): a voice command whose intent is not valid in the current
\* recording state changes neither recordingState, duration, the timer nor the
\* message list, and makes no send call.
C2_InvalidIntentIsNoOp ==
  [][(MsgStep({"resolved"}) /\ InvalidIn(ev'.intent, recordingState))
       => /\ UNCHANGED <<recordingState, duration, timerOn, messages, uploads>>
          /\ "geminiService.sendMessage" \notin Fns(out')]_vars

\* C3: on the Feed screen a classified intent outside the handled tags emits the
\* generic fallback message and nothing else (but the completion callback), and
\* leaves currentPostIndex, isPlaying and the scroll state unchanged.
C3_FeedUnrecognizedIntent ==
  [][(FeedStep({"deliver"}, {"resolved"}) /\ ev'.intent \notin FeedIntents)
       => /\ out' = <<GenericError, CommandProcessed>>
          /\ UNCHANGED <<currentPostIndex, isPlaying, scrollState, posts>>]_vars

C3_Witness ==
  /\ comp = "feed" /\ ev.kind = "deliver" /\ ev.result = "resolved"
  /\ ev.intent = "unknown"
  /\ out = <<GenericError, CommandProcessed>>
  /\ currentPostIndex = 1 /\ isPlaying /\ scrollState = "down"

\* C4 (as claimed): on the Message screen a classified intent outside the
\* handled tags emits the generic "I didn't understand" message and changes no state.
C4_MsgUnrecognizedIntent ==
  [][(MsgStep({"resolved"}) /\ ev'.intent \notin MessageIntents)
       => /\ out' = <<GenericError, CommandProcessed>>
          /\ UNCHANGED msgVars]_vars

\* C5 (as claimed): intent_next_post makes the index 0 from -1, i+1 from
\* i < n-1 and 0 from n-1, switches playback on, and the resulting index is a
\* position of the posts list or -1, for every post count n.
C5_NextPostAdvances ==
  [][(FeedStep({"deliver"}, {"resolved"}) /\ ev'.intent = "intent_next_post")
       => LET n == Len(posts)
              i == currentPostIndex
              r == currentPostIndex'
          IN /\ isPlaying'
             /\ i = -1 => r = 0
             /\ (i # NaN /\ 0 <= i /\ i < n - 1) => r = i + 1
             /\ (n >= 1 /\ i = n - 1) => r = 0
             /\ r = -1 \/ (r # NaN /\ 0 <= r /\ r < n)]_vars

LookupIntents ==
  {"intent_like", "intent_comment", "intent_view_comments", "intent_view_comments_by_author"}

\* the name is the author name of no non-sponsored post of the list
NoPostBy(ps, name) == ~\E k \in DOMAIN ps : ~ps[k].sponsored /\ ps[k].author = name

\* the one "couldn't find" message of the intent, naming the target
CouldntFind(o, name) ==
  /\ o[1].fn = "onSetTtsMessage"
  /\ o[1].arg \in {"couldnt_find_to_like", "cant_find_to_view"}
  /\ o[1].name = name

\* The lookup intents with slot values in ts: a target naming no non-sponsored
\* post of the posts list the invocation holds gets the "couldn't find"
\* message naming it and no other call; index and playback stay.
LookupMissIn(ts) ==
  \A i \in Slots :
    (/\ FeedStep({"deliver"}, {"resolved"})
     /\ Returns(i)
     /\ ev'.intent \in LookupIntents
     /\ ev'.target \in ts
     /\ NoPostBy(inv[i].cPosts, ev'.target))
      => /\ Len(out') = 2
         /\ CouldntFind(out', ev'.target)
         /\ out'[2] = CommandProcessed
         /\ UNCHANGED <<currentPostIndex, isPlaying>>

NoAuthor(ps, name) == ~\E k \in DOMAIN ps : ps[k].author = name

\* C7 (as claimed): intent_open_profile with a target_name that matches no post
\* author emits a "couldn't find" message and does not call onOpenProfile.
C7_OpenProfileMiss ==
  [][\A i \in Slots :
       (/\ FeedStep({"deliver"}, {"resolved"})
        /\ Returns(i)
        /\ ev'.intent = "intent_open_profile"
        /\ Truthy(ev'.target)
        /\ NoAuthor(inv[i].cPosts, ev'.target))
         => /\ "onOpenProfile" \notin Fns(out')
            /\ "onSetTtsMessage" \in Fns(out')]_vars

\* C7 (amended): intent_open_profile with a non-empty target_name calls
\* onOpenProfile once with that name, whether or not the name is a post
\* author's, and emits no message; index, playback and scroll state stay.
C7_OpenProfileDelegates ==
  [][(/\ FeedStep({"deliver"}, {"resolved"})
      /\ ev'.intent = "intent_open_profile"
      /\ Truthy(ev'.target))
       => /\ out' = <<Call("onOpenProfile", "", ev'.target, 0), CommandProcessed>>
          /\ UNCHANGED <<currentPostIndex, isPlaying, scrollState>>]_vars

C7_Witness ==
  /\ comp = "feed" /\ ev.kind = "deliver" /\ ev.result = "resolved"
  /\ ev.intent = "intent_open_profile" /\ ev.target = "carol"
  /\ Len(posts) = 1 /\ NoAuthor(posts, "carol")
  /\ out[1] = Call("onOpenProfile", "", "carol", 0)

\* C8 (as claimed): handleCommand is called, and a processIntent request sent,
\* only for a newly delivered command, never again for the pending one.
C8_OneRequestPerCommand ==
  [][\A i \in Slots : Started(i) => lastCommand = Null]_vars

\* C9: the step in which an invocation returns calls onCommandProcessed once,
\* no other step calls it, and every invocation in flight eventually returns.
C9_ProcessedExactlyOnce ==
  /\ [][ProcessedCalls(out') = Cardinality({i \in Slots : Returns(i)})]_vars
  /\ \A i \in Slots : (inv[i].pc # "free") ~> (inv[i].pc = "free")

C9_Witness ==
  /\ ev.kind = "deliver" /\ ev.result = "threw"
  /\ ProcessedCalls(out) = 1
  /\ \E i \in Slots : inv[i].pc = "awaitIntent"

\* C10: on the Feed screen a rejected processIntent or searchUsers call emits
\* the generic error message once, starts no further request, navigates nowhere
\* and leaves currentPostIndex, isPlaying and the scroll state unchanged.
C10_FeedFailure ==
  [][FeedStep({"deliver", "searchSettled"}, {"rejected"})
       => /\ out' = <<GenericError, CommandProcessed>>
          /\ \A i \in Slots : ~Started(i) /\ (inv'[i] # inv[i] => Returns(i))
          /\ UNCHANGED <<currentPostIndex, isPlaying, scrollState>>]_vars

C10_Witness ==
  /\ comp = "feed" /\ ev.kind = "searchSettled" /\ ev.result = "rejected"
  /\ out = <<GenericError, CommandProcessed>>
  /\ currentPostIndex = 0 /\ isPlaying /\ scrollState = "up"

\* C11 (as claimed): on the Message screen a rejected processIntent call emits
\* the generic error message through onSetTtsMessage and leaves recordingState,
\* duration and the message list unchanged.
C11_MsgFailureSurfaces ==
  [][MsgStep({"rejected"})
       => /\ \E k \in DOMAIN out' : out'[k] = GenericError
          /\ UNCHANGED <<recordingState, duration, messages>>]_vars

\* the handler has run for a request
ProxyHandled == comp = "proxy" /\ handlerPc # "idle"

\* the handler returned after the classifier sent text that, with its fences
\* stripped, is not one JSON value
MalformedAnswer ==
  /\ comp = "proxy" /\ handlerPc = "done"
  /\ request.body.action = "processIntent"
  /\ upstream.kind = "text"
  /\ ~Parses(JsonText(upstream.text))

\* C12 (as claimed): when the classifier's text is not valid JSON after the
\* fences are stripped, the response is 200 with an intent result whose intent
\* is 'unknown'.
C12_MalformedIsUnknown ==
  MalformedAnswer => responses = <<Response(200, "", FALSE, <<"{intent:unknown}">>)>>

\* C12 (amended): when the classifier's text is not valid JSON after the fences
\* are stripped, the one response is 500 with the internal-error body and its
\* details; a 200 response carries exactly the JSON value the classifier sent.
C12_MalformedIs500 ==
  /\ MalformedAnswer
       => /\ Len(responses) = 1
          /\ responses[1].status = 500
          /\ responses[1].error = "An internal server error occurred"
          /\ responses[1].details
  /\ (comp = "proxy" /\ handlerPc = "done" /\ upstream.kind = "text"
        /\ responses[1].status = 200)
       => \E k \in DOMAIN upstream.text :
            /\ upstream.text[k] \in JsonValues
            /\ responses[1].value = <<upstream.text[k]>>
            /\ \A j \in DOMAIN upstream.text \ {k} : upstream.text[j] \in {Fence, "json"}

C12_Witness ==
  /\ MalformedAnswer
  /\ upstream.text = <<"{intent:unknown}", "sorry">>
  /\ responses = <<InternalError>>

\* C13: a request whose method is not POST gets the one response 405 with an
\* error body and causes no upstream call, whatever its body and whether or not
\* the API key is set.
C13_NonPostIs405 ==
  (ProxyHandled /\ request.method # "POST")
    => /\ handlerPc = "done"
       /\ Len(responses) = 1
       /\ responses[1].status = 405
       /\ responses[1].error = "Method Not Allowed"
       /\ upstreamCalls = 0

C13_Witness ==
  /\ ProxyHandled
  /\ request.method = "GET"
  /\ request.body.present /\ request.body.action = "processIntent" /\ request.body.payload
  /\ ~apiKey
  /\ responses = <<MethodNotAllowed>>

\* a POST request whose action is neither of the two
InvalidActionRequest ==
  /\ ProxyHandled
  /\ request.method = "POST"
  /\ request.body.action \notin {"processIntent", "generateImage"}

IsInvalidAction(r) == r.status = 400 /\ r.error = "Invalid action"

C15_OneResponsePerRequest ==
  comp = "proxy"
    => /\ handlerPc # "escaped"
       /\ handlerPc \in {"awaitContent", "awaitImages"} => responses = <<>>
       /\ handlerPc = "done"
            => /\ Len(responses) = 1
               /\ responses[1].status \in {200, 400, 405, 500}
       /\ (ProxyHandled /\ request.method = "POST" /\ ~apiKey)
            => responses = <<KeyNotConfigured>> /\ upstreamCalls = 0
       /\ (handlerPc = "done" /\ request.method = "POST" /\ apiKey
             /\ request.body.action \in {"processIntent", "generateImage"}
             /\ (upstream.kind = "throws" \/ ~request.body.payload))
            => responses = <<InternalError>>

\* a well-formed generateImage request with the API key set
ImageRequest ==
  /\ ProxyHandled
  /\ request.method = "POST"
  /\ request.body = [present |-> TRUE, action |-> "generateImage", payload |-> TRUE]
  /\ apiKey

C16_ScrollsWhileDisplayed ==
  comp \in ScrollScreens
    => /\ (shown /\ scrollState # "none") => frame = Frame(scrollState, TRUE)
       /\ scrollState = "none" => ~frame.pending

\* the confirmation dialog of an action was shown and answered
Confirmed(o, action, accepted) ==
  \E k \in DOMAIN o : o[k] = Call("window.confirm", action, "", IF accepted THEN 1 ELSE 0)

\* C17 (as claimed): on the Message screen a step makes the delete call only
\* after the delete confirmation was accepted and calls onBlockUser only after
\* the block confirmation was accepted, on the voice path and on the menu path;
\* a declined confirmation causes no delete call, no block, no navigation, no
\* spoken message.
C17_DestructiveActionsConfirmed ==
  [][comp = "message"
       => /\ "geminiService.deleteChatHistory" \in Fns(out') => Confirmed(out', "delete", TRUE)
          /\ "onBlockUser" \in Fns(out') => Confirmed(out', "block", TRUE)
          /\ (Confirmed(out', "delete", FALSE) \/ Confirmed(out', "block", FALSE))
               => /\ Fns(out') \subseteq {"window.confirm", "onCommandProcessed"}
                  /\ pending' = pending]_vars

\* C18 (as claimed): on the Message screen, when a send call settles while
\* recordingState is Uploading, with success or with failure, recordingState
\* becomes Idle.
C18_UploadingReturnsToIdle ==
  [][(comp = "message" /\ Len(uploads') < Len(uploads) /\ recordingState = "UPLOADING")
       => recordingState' = "IDLE"]_vars

\* C19 (as claimed): on the Message screen a step makes at most one send call
\* and makes it only in Preview, so that a preview is sent once, and a message
\* is appended only while Uploading.
C19_SendOnlyInPreview ==
  [][comp = "message"
       => /\ Len(uploads') > Len(uploads)
               => recordingState = "PREVIEW" /\ Len(uploads') = Len(uploads) + 1
          /\ Len(messages') > Len(messages) => recordingState = "UPLOADING"]_vars

\* C21 (as claimed): on the Feed screen currentPostIndex is -1 or a position
\* 0..posts.length-1 of the current posts list, never an out-of-range position
\* or a non-number.
C21_IndexInRange ==
  comp = "feed" => (currentPostIndex = -1 \/ HasPost(posts, currentPostIndex))

\* C22 (as claimed): with n >= 1 posts, intent_previous_post moves the index
\* from i > 0 to i-1 and from 0 or -1 to n-1 and switches playback on;
\* intent_play_post selects 0 only when no post is selected, else leaves the
\* index, and switches playback on; intent_pause_post switches playback off and
\* leaves the index; next followed by previous returns to the selected index.
C22_PlaybackIntents ==
  [][(FeedStep({"deliver"}, {"resolved"}) /\ Len(posts) >= 1)
       => LET n == Len(posts)
              i == currentPostIndex
              r == currentPostIndex'
          IN /\ ev'.intent = "intent_previous_post"
                  => /\ isPlaying'
                     /\ JsGt(i, 0) => r = i - 1
                     /\ i \in {0, -1} => r = n - 1
             /\ ev'.intent = "intent_play_post"
                  => /\ isPlaying'
                     /\ i = -1 => r = 0
                     /\ i # -1 => r = i
             /\ ev'.intent = "intent_pause_post" => (~isPlaying' /\ r = i)
             /\ HasPost(posts, i) => PreviousPostIndex(NextPostIndex(i, n), n) = i]_vars

\* the intents that act on a post or on its author
PostIntents == LookupIntents \cup {"intent_open_profile"}

\* the calls of o that like a post or open its comments
PostCalls(o) == {k \in DOMAIN o : o[k].fn \in {"onLikePost", "onViewPost"}}

ScrollOf(intent) ==
  CASE intent = "intent_scroll_down" -> "down"
    [] intent = "intent_scroll_up"   -> "up"
    [] intent = "intent_stop_scroll" -> "none"

\* the one request a navigation intent issues
RequestOf(intent) ==
  CASE intent = "intent_open_friends_page" -> Call("onNavigate", "FRIENDS", "", 0)
    [] intent = "intent_open_messages"     -> Call("onNavigate", "CONVERSATIONS", "", 0)
    [] intent = "intent_open_settings"     -> Call("onNavigate", "SETTINGS", "", 0)
    [] intent = "intent_create_post"       -> Call("onStartCreatePost", "", "", 0)

\* C24: on the Feed screen a scroll intent only asks for its scroll state, which
\* becomes Down, Up or None, and leaves currentPostIndex and isPlaying; a
\* navigation intent issues exactly its one navigation or create request and
\* leaves currentPostIndex, isPlaying and the scroll state; a playback intent
\* leaves the scroll state and makes no call but the completion callback.
C24_DisjointEffects ==
  [][FeedStep({"deliver"}, {"resolved"})
       => /\ ev'.intent \in {"intent_scroll_down", "intent_scroll_up", "intent_stop_scroll"}
               => /\ scrollState' = ScrollOf(ev'.intent)
                  /\ out' = <<Call("onSetScrollState", ScrollOf(ev'.intent), "", 0),
                              CommandProcessed>>
                  /\ UNCHANGED <<currentPostIndex, isPlaying>>
          /\ ev'.intent \in {"intent_open_friends_page", "intent_open_messages",
                             "intent_open_settings", "intent_create_post"}
               => /\ out' = <<RequestOf(ev'.intent), CommandProcessed>>
                  /\ UNCHANGED <<currentPostIndex, isPlaying, scrollState>>
          /\ ev'.intent \in {"intent_next_post", "intent_previous_post",
                             "intent_play_post", "intent_pause_post"}
               => /\ out' = <<CommandProcessed>>
                  /\ UNCHANGED scrollState]_vars

C24_Witness ==
  /\ comp = "feed" /\ ev.kind = "deliver" /\ ev.result = "resolved"
  /\ ev.intent = "intent_scroll_up"
  /\ scrollState = "up" /\ currentPostIndex = 1 /\ isPlaying
  /\ out = <<Call("onSetScrollState", "up", "", 0), CommandProcessed>>

\* C25 (as claimed): on the Message screen the interval timer runs exactly
\* while recordingState is Recording; duration is 0 when a recording or
\* re-recording starts, grows by 1 per tick and only while Recording, does not
\* change in Preview and Uploading, and is 0 in Idle after a send; the duration
\* passed to the send call is the duration counted by the recording just stopped.
C25_TimerOnlyWhileRecording ==
  [][comp = "message"
       => /\ timerOn' <=> recordingState' = "RECORDING"
          /\ (recordingState' = "RECORDING" /\ recordingState # "RECORDING") => duration' = 0
          /\ duration' # duration
               => \/ duration' = 0
                  \/ recordingState = "RECORDING" /\ duration' = duration + 1
          /\ (recordingState \in {"PREVIEW", "UPLOADING"} /\ recordingState' = recordingState)
               => duration' = duration
          /\ (recordingState = "UPLOADING" /\ recordingState' = "IDLE") => duration' = 0
          /\ \A k \in DOMAIN out' :
               out'[k].fn = "geminiService.sendMessage" => out'[k].num = duration]_vars

\* C26 (as claimed): on the Feed screen, once the programmatic-scroll flag is
\* set it is eventually cleared, also when the intent leaves the index
\* unchanged and when the posts list is or becomes empty.
C26_FlagEventuallyCleared ==
  (comp = "feed" /\ isProgrammaticScroll) ~> ~isProgrammaticScroll

\* exactly one auto-stop timeout is pending, and it is the one of message id
OneTimeoutFor(id) == \E t \in timeouts : timeouts = {t} /\ t.msg = id

\* At most one auto-stop timeout is pending; on the mounted screen it belongs to
\* the playing message, and a playing message has one.
PlaybackTimeoutInvariant ==
  comp = "playback"
    => /\ Cardinality(timeouts) <= 1
       /\ screenMounted
            => /\ \A t \in timeouts : t.msg = playingMessageId
               /\ playingMessageId # Null => timeouts # {}

\* handlePlayMessage acted as a toggle on message id
Toggled(id) ==
  IF playingMessageId = id
  THEN playingMessageId' = Null /\ timeouts' = {}
  ELSE playingMessageId' = id /\ OneTimeoutFor(id)'

\* an auto-stop timeout that fires stops the message it was set for
StopsItsOwn ==
  \A t \in timeouts :
    (AutoStopFires(t) /\ screenMounted) => (playingMessageId = t.msg /\ playingMessageId' = Null)

\* C27 (as claimed): at most one auto-stop timeout is pending and it never stops
\* another message than its own; every play of a message, from its play button
\* or by the automatic playback after a send, starts it with its own timeout
\* when it is not playing and stops it when it is the playing message.
C27_EveryPlayToggles ==
  /\ []PlaybackTimeoutInvariant
  /\ [][(comp = "playback" /\ screenMounted)
          => /\ \A k \in DOMAIN messages : PlayClick(messages[k].id) => Toggled(messages[k].id)
             /\ \A a \in autoPlays : AutoPlayFires(a) => Toggled(a.msg)
             /\ StopsItsOwn]_vars

\* C27 (amended): at most one auto-stop timeout is pending and it never stops
\* another message than its own; the play button starts a message that is not
\* playing, with its own timeout, and stops the playing message; the automatic
\* playback after a send always starts the new message with a new timeout, also
\* when that message is already playing.
C27_PlaybackOneTimeout ==
  /\ []PlaybackTimeoutInvariant
  /\ [][(comp = "playback" /\ screenMounted)
          => /\ \A k \in DOMAIN messages : PlayClick(messages[k].id) => Toggled(messages[k].id)
             /\ \A a \in autoPlays :
                  AutoPlayFires(a)
                    => /\ playingMessageId' = a.msg
                       /\ OneTimeoutFor(a.msg)'
                       /\ timeouts' \cap timeouts = {}
             /\ StopsItsOwn]_vars

\* two messages were sent before the list was loaded; the automatic playback of
\* the first was replaced by the automatic playback of the second
C27_Witness ==
  /\ comp = "playback" /\ screenMounted /\ listLoading
  /\ playingMessageId = "s2"
  /\ timeoutIds = 2 /\ timeouts = {Timeout(2, "s2")}
  /\ autoPlays = {}

\* the calls of o that store search results or navigate
StoreOrNavigate(o) == {k \in DOMAIN o : o[k].fn \in {"setSearchResults", "onNavigate"}}

\* intent_search_user, the slot values in ts being the ones that count as a
\* target_name: with one, a step makes one searchUsers call with that query and
\* nothing else until the call settles; when it resolves, the results are
\* stored, then the search-results view is navigated to with that query, then
\* the completion callback is called; when it rejects nothing is stored and
\* nothing navigated to; with none, no search, no store, no navigation happen.
SearchInOrder(ts) ==
  \A i \in Slots :
    /\ (FeedStep({"deliver"}, {"resolved"}) /\ inv[i].pc = "awaitIntent" /\ inv'[i] # inv[i]
          /\ ev'.intent = "intent_search_user")
         => IF ev'.target \in ts
            THEN /\ out' = <<Call("searchUsers", "", ev'.target, 0)>>
                 /\ inv'[i].pc = "awaitSearch"
                 /\ inv'[i].query = ev'.target
            ELSE /\ out' = <<CommandProcessed>>
                 /\ inv'[i].pc = "free"
    /\ (FeedStep({"searchSettled"}, {"resolved"}) /\ Returns(i))
         => /\ inv[i].pc = "awaitSearch"
            /\ out' = <<Call("setSearchResults", "", inv[i].query, 0),
                        Call("onNavigate", "SEARCH_RESULTS", inv[i].query, 0),
                        CommandProcessed>>
    /\ (FeedStep({"searchSettled"}, {"rejected"}) /\ Returns(i))
         => /\ StoreOrNavigate(out') = {}
            /\ ProcessedCalls(out') = 1
    /\ (comp = "feed" /\ "searchUsers" \in Fns(out'))
         => ev'.kind = "deliver" /\ ev'.intent = "intent_search_user"

\* C28 (as claimed): every target_name slot the classifier sends counts
C28_SearchAnyTarget == [][SearchInOrder(Targets \ {Absent})]_vars

\* C28 (amended): a non-empty target_name counts; an empty one is treated as
\* no target_name
C28_SearchInOrder == [][SearchInOrder(Targets \ {Absent, ""})]_vars

C28_Witness ==
  /\ comp = "feed" /\ ev.kind = "searchSettled" /\ ev.result = "resolved"
  /\ out = <<Call("setSearchResults", "", "alice", 0),
             Call("onNavigate", "SEARCH_RESULTS", "alice", 0),
             CommandProcessed>>
  /\ lastCommand = Null

\* the list shows the history of the current recipient first, then messages of
\* that conversation only, none twice, in the order the sends were stored
ListOfRecipient ==
  /\ messages # <<>>
  /\ messages[1] = History(recipient)
  /\ \A k \in DOMAIN messages : messages[k].conv = recipient
  /\ \A j, k \in DOMAIN messages : j < k => messages[j] # messages[k]
  /\ SubSeq(messages, 2, Len(messages))
       = SelectSeq(StoredOf(recipient),
                   LAMBDA m : \E k \in DOMAIN messages : messages[k] = m)

\* a displayed sent message of the current conversation stays displayed
KeepsSent ==
  \A k \in DOMAIN messages :
    (messages[k].conv = recipient /\ messages[k] # History(recipient))
      => \E j \in DOMAIN messages' : messages'[j] = messages[k]

\* C29 (as claimed): on the Message screen, whenever loading has finished the
\* list is the fetched messages of the current recipient followed by the
\* messages sent in the session, each once and in completion order; a fetch
\* that completes late neither shows another conversation nor drops a sent
\* message.
C29_ListIsFetchedThenSent ==
  /\ []((comp = "chat" /\ screenMounted /\ ~listLoading) => ListOfRecipient)
  /\ [][(comp = "chat" /\ screenMounted /\ recipient' = recipient) => KeepsSent]_vars

====
